---------------------------- MODULE Spec2Model ----------------------------
(***************************************************************************)
(* State-machine model of the solar-analytics batch quality gate:          *)
(*   src/src/validate_parquet.py        validate_parquet_quality           *)
(*   src/airflow/dags/solar_pipeline_dag.py   the solar_pipeline DAG        *)
(*                                                                         *)
(* Conventions.                                                            *)
(*  - Physical values and physical bounds are integers in tenths of the    *)
(*    unit (-17.4 degC is -174, 548.5 V is 5485), so the comparisons of    *)
(*    the code are exact integer comparisons.                              *)
(*  - A column name is the sequence of its characters, so that             *)
(*    str.startswith is a real prefix test.                                *)
(*  - A cell value is a tagged record: a number, a timestamp (year and     *)
(*    month are what the code reads of it), a string that is neither, or   *)
(*    a missing value (None / NaN / NaT).                                  *)
(*  - A path is [year, month]: the values of its year=<YYYY> and           *)
(*    month=<MM> segments, 0 standing for an absent segment.  The file     *)
(*    name (solar_data_<YYYY>_<MM>.parquet) is determined by the path.     *)
(***************************************************************************)
EXTENDS Integers, Sequences, FiniteSets, Bags, TLC

VARIABLES
    batch,          \* the staging directory: what is on disk (never written)
    kwargs,         \* keyword arguments validate_parquet_quality is called
                    \* with besides input_dir (never written)
    dag_run,        \* number of DAG runs triggered so far
    task_state,     \* Airflow state of each task instance of the current run
    try_number,     \* attempts started, per task, in the current run
    xcom,           \* XCom values pushed in the current run
    pc,             \* position of validate_parquet_quality
    parquet_files,  \* local parquet_files: the sorted list of paths
    idx,            \* position of the for loop in parquet_files
    results,        \* local results dict
    log,            \* records emitted through logger, in order
    exc,            \* the exception leaving validate_parquet_quality
    first_run       \* outcome of the first completed validation of the batch

vars == << batch, kwargs, dag_run, task_state, try_number, xcom, pc,
           parquet_files, idx, results, log, exc, first_run >>

---------------------------------------------------------------------------
(* Program constants                                                       *)

EXPECTED_FILES == 131
EXPECTED_COLUMNS == 107
DRIFT_TOLERANCE == 2
retries == 1
FIRST_YEAR == 2013
YEARS_END == 2024
FILES_CONVERTED == 131
COLUMNS_PER_FILE == 108
MONTHS_PER_YEAR == 12

(* Bounds of the model                                                     *)
MaxRows == 4        \* rows of a file of the timestamp family
MaxVals == 2        \* rows of a file of the bound family
SmallFiles == 2     \* regular files of a small staging directory
MaxDagRuns == 2     \* DAG runs triggered over the unchanged batch

G_H_ == <<"G", "_", "H">>
G_M_ == <<"G", "_", "M">>
T_U_ == <<"T", "_", "U">>
T_M_ == <<"T", "_", "M">>
T_WR_ == <<"T", "_", "W", "R">>
P_AC_ == <<"P", "_", "A", "C">>
U_DC_ == <<"U", "_", "D", "C">>
U_AC_ == <<"U", "_", "A", "C">>
TIMESTAMP == <<"t", "i", "m", "e", "s", "t", "a", "m", "p">>

\* The dict literal, in insertion order (the order .items() iterates in).
PHYSICAL_BOUNDS ==
    << [prefix |-> G_H_, min |-> 0, max |-> 15000, unit |-> "W/m2",
        desc |-> "Global Horizontal Irradiance"],
       [prefix |-> G_M_, min |-> 0, max |-> 15000, unit |-> "W/m2",
        desc |-> "Module Plane Irradiance"],
       [prefix |-> T_U_, min |-> -174, max |-> 500, unit |-> "degC",
        desc |-> "Ambient Temperature"],
       [prefix |-> T_M_, min |-> -174, max |-> 700, unit |-> "degC",
        desc |-> "Module Temperature"],
       [prefix |-> T_WR_, min |-> -174, max |-> 800, unit |-> "degC",
        desc |-> "Inverter Temperature"],
       [prefix |-> P_AC_, min |-> 0, max |-> 58800, unit |-> "W",
        desc |-> "AC Power"],
       [prefix |-> U_DC_, min |-> 0, max |-> 5485, unit |-> "V",
        desc |-> "DC Voltage"],
       [prefix |-> U_AC_, min |-> 0, max |-> 2800, unit |-> "V",
        desc |-> "AC Voltage"] >>

---------------------------------------------------------------------------
(* Cell values and the pandas conversions                                  *)

Num(v) == [t |-> "num", a |-> v, b |-> 0]
Ts(y, m) == [t |-> "ts", a |-> y, b |-> m]
Str == [t |-> "str", a |-> 0, b |-> 0]
NA == [t |-> "na", a |-> 0, b |-> 0]

isna(v) == v.t = "na"

\* pd.to_datetime(..., errors='coerce'): a timestamp stays, a number is read
\* as an offset from the epoch, anything else becomes NaT.
to_datetime(v) ==
    IF v.t = "ts" THEN v
    ELSE IF v.t = "num" THEN Ts(1970, 1)
    ELSE NA

\* pd.to_numeric(..., errors='coerce'): a number stays, anything else is NaN.
to_numeric(v) == IF v.t = "num" THEN v ELSE NA

MapSeq(s, Op(_)) == [i \in 1..Len(s) |-> Op(s[i])]

dropna(s) == SelectSeq(s, LAMBDA v : ~isna(v))

\* (series <predicate>).sum()
CountIf(s, P(_)) == Len(SelectSeq(s, P))

RECURSIVE Flatten(_)
Flatten(ss) == IF ss = << >> THEN << >> ELSE Head(ss) \o Flatten(Tail(ss))

\* str.startswith
startswith(s, p) == Len(p) <= Len(s) /\ SubSeq(s, 1, Len(p)) = p


---------------------------------------------------------------------------
(* Paths of the staging directory                                          *)

\* The k-th monthly export, year=<YYYY>/month=<MM>/solar_data_<YYYY>_<MM>.parquet,
\* as csv_to_parquet lays it out; k = 1 is January of FIRST_YEAR.
Regular(k) ==
    [year |-> FIRST_YEAR + ((k - 1) \div MONTHS_PER_YEAR),
     month |-> ((k - 1) % MONTHS_PER_YEAR) + 1]

\* pf.parts: the year= and month= segments the path has, then the file name.
parts(pf) ==
    (IF pf.year # 0 THEN << [key |-> "year", val |-> pf.year] >> ELSE << >>)
    \o (IF pf.month # 0 THEN << [key |-> "month", val |-> pf.month] >> ELSE << >>)
    \o << [key |-> "file", val |-> 0] >>

\* pf.name
name(pf) == << pf.year, pf.month >>

\* [p for p in pf.parts if p.startswith(key + '=')]
segments(pf, key) == SelectSeq(parts(pf), LAMBDA q : q.key = key)

\* Order of two paths under sorted(): year=... sorts after month=... ('m' < 'y'),
\* and under one year directory the month=<MM> directories (two digits) sort
\* before the file names (solar_data...: 'm' < 's').
PathKey(pf) ==
    IF pf.year = 0 THEN << 0, pf.month >>
    ELSE IF pf.month = 0 THEN << pf.year, MONTHS_PER_YEAR + 1 >>
    ELSE << pf.year, pf.month >>

PathLess(p, q) ==
    \/ PathKey(p)[1] < PathKey(q)[1]
    \/ PathKey(p)[1] = PathKey(q)[1] /\ PathKey(p)[2] < PathKey(q)[2]

Range(s) == {s[i] : i \in 1..Len(s)}

Reverse(s) == [i \in 1..Len(s) |-> s[Len(s) + 1 - i]]

\* Variant: the listing as the file system gave it.
sorted_not(listing) == listing

\* sorted(...): the listing in ascending path order
sorted(listing) == SortSeq(listing, PathLess)

---------------------------------------------------------------------------
(* Files on disk                                                           *)

\* A file is [readable, rows, pad, cols]: cols are the columns the checks can
\* tell apart (name and cell values, rows of them each), pad is the number of
\* further columns, whose names are not 'timestamp' and start with no prefix
\* of PHYSICAL_BOUNDS.
Column(n, vals) == [name |-> n, vals |-> vals]

File(rows, ncols, cols) ==
    [readable |-> TRUE, rows |-> rows, pad |-> ncols - Len(cols), cols |-> cols]

Unreadable == [readable |-> FALSE, rows |-> 0, pad |-> 0, cols |-> << >>]

Rep(v, n) == [i \in 1..n |-> v]

\* len(df.columns)
NCols(df) == df.pad + Len(df.cols)

\* 'timestamp' in df.columns
HasTimestamp(df) == \E i \in 1..Len(df.cols) : df.cols[i].name = TIMESTAMP

\* df['timestamp']
TimestampColumn(df) ==
    df.cols[CHOOSE i \in 1..Len(df.cols) : df.cols[i].name = TIMESTAMP].vals

---------------------------------------------------------------------------
(* The checks of validate_parquet_quality: each yields the entries it      *)
(* appends, in the order it appends them.  An entry is the f-string of the *)
(* code, as the record of the values it interpolates.                      *)

\* Variant: only a shortfall of files is a defect.
Check1_shortfall(files) ==
    IF Len(files) < EXPECTED_FILES
    THEN << [kind |-> "file_count", expected |-> EXPECTED_FILES,
             found |-> Len(files)] >>
    ELSE << >>

\* Variant: a keyword argument EXPECTED_FILES replaces the module's constant.
Check1_configurable(files) ==
    LET expected == IF "EXPECTED_FILES" \in DOMAIN kwargs
                    THEN kwargs.EXPECTED_FILES ELSE EXPECTED_FILES
    IN  IF Len(files) # expected
        THEN << [kind |-> "file_count", expected |-> expected,
                 found |-> Len(files)] >>
        ELSE << >>

\* CHECK 1: file count
Check1(files) ==
    IF Len(files) # EXPECTED_FILES
    THEN << [kind |-> "file_count", expected |-> EXPECTED_FILES,
             found |-> Len(files)] >>
    ELSE << >>

\* Variant: only surplus columns are a defect.
Check2_surplus(df, pf) ==
    IF NCols(df) > EXPECTED_COLUMNS
    THEN << [kind |-> "schema", file |-> name(pf),
             expected |-> EXPECTED_COLUMNS, found |-> NCols(df)] >>
    ELSE << >>

\* CHECK 2: schema consistency
Check2(df, pf) ==
    IF NCols(df) # EXPECTED_COLUMNS
    THEN << [kind |-> "schema", file |-> name(pf),
             expected |-> EXPECTED_COLUMNS, found |-> NCols(df)] >>
    ELSE << >>

\* Variant: emptiness is looked at only when the schema check passed (elif).
Check3_elif(df, pf) ==
    IF NCols(df) = EXPECTED_COLUMNS /\ df.rows = 0
    THEN << [kind |-> "empty", file |-> name(pf)] >>
    ELSE << >>

\* CHECK 3: non-empty
Check3(df, pf) ==
    IF df.rows = 0
    THEN << [kind |-> "empty", file |-> name(pf)] >>
    ELSE << >>

\* Variant: two rows of another month or year already count as drift.
Drifts_at_two(wrong_year, wrong_month) ==
    wrong_month >= DRIFT_TOLERANCE \/ wrong_year >= DRIFT_TOLERANCE

\* Line 119: more than the two rows a Meteocontrol export carries over.
Drifts(wrong_year, wrong_month) ==
    wrong_month > DRIFT_TOLERANCE \/ wrong_year > DRIFT_TOLERANCE

\* Variant: the values that were already missing are counted as unparseable.
Check4_counts_missing(df, pf, year, month) ==
    IF HasTimestamp(df) /\ df.rows > 0
    THEN LET ts == MapSeq(TimestampColumn(df), to_datetime)
             valid_ts == dropna(ts)
             wrong_year == CountIf(valid_ts, LAMBDA v : v.a # year)
             wrong_month == CountIf(valid_ts, LAMBDA v : v.b # month)
             unparseable == CountIf(ts, isna)
         IN  (IF Len(valid_ts) > 0 /\ Drifts(wrong_year, wrong_month)
              THEN << [kind |-> "drift", file |-> name(pf),
                       wrong_year |-> wrong_year,
                       wrong_month |-> wrong_month] >>
              ELSE << >>)
             \o
             (IF unparseable > 0
              THEN << [kind |-> "unparseable", file |-> name(pf),
                       count |-> unparseable] >>
              ELSE << >>)
    ELSE << >>

\* CHECK 4: timestamp integrity
Check4(df, pf, year, month) ==
    IF HasTimestamp(df) /\ df.rows > 0
    THEN LET ts == MapSeq(TimestampColumn(df), to_datetime)
             valid_ts == dropna(ts)
             wrong_year == CountIf(valid_ts, LAMBDA v : v.a # year)
             wrong_month == CountIf(valid_ts, LAMBDA v : v.b # month)
             unparseable == CountIf(ts, isna)
                            - CountIf(TimestampColumn(df), isna)
         IN  (IF Len(valid_ts) > 0 /\ Drifts(wrong_year, wrong_month)
              THEN << [kind |-> "drift", file |-> name(pf),
                       wrong_year |-> wrong_year,
                       wrong_month |-> wrong_month] >>
              ELSE << >>)
             \o
             (IF unparseable > 0
              THEN << [kind |-> "unparseable", file |-> name(pf),
                       count |-> unparseable] >>
              ELSE << >>)
    ELSE << >>

\* matching_cols = [c for c in df.columns if c.startswith(col_prefix)]
matching_cols(df, col_prefix) ==
    SelectSeq(df.cols, LAMBDA c : startswith(c.name, col_prefix))

\* Variant: values on a limit count as violations.
BoundCheck_exclusive(pf, col, bounds) ==
    LET numeric == dropna(MapSeq(col.vals, to_numeric))
        below_min == CountIf(numeric, LAMBDA v : v.a <= bounds.min)
        above_max == CountIf(numeric, LAMBDA v : v.a >= bounds.max)
    IN  IF Len(numeric) = 0 THEN << >>
        ELSE IF below_min > 0 \/ above_max > 0
        THEN << [kind |-> "bound", file |-> name(pf), col |-> col.name,
                 desc |-> bounds.desc, below |-> below_min,
                 min |-> bounds.min, above |-> above_max,
                 max |-> bounds.max, unit |-> bounds.unit] >>
        ELSE << >>

\* The body of the loop over matching_cols, for one column.
BoundCheck(pf, col, bounds) ==
    LET numeric == dropna(MapSeq(col.vals, to_numeric))
        below_min == CountIf(numeric, LAMBDA v : v.a < bounds.min)
        above_max == CountIf(numeric, LAMBDA v : v.a > bounds.max)
    IN  IF Len(numeric) = 0 THEN << >>
        ELSE IF below_min > 0 \/ above_max > 0
        THEN << [kind |-> "bound", file |-> name(pf), col |-> col.name,
                 desc |-> bounds.desc, below |-> below_min,
                 min |-> bounds.min, above |-> above_max,
                 max |-> bounds.max, unit |-> bounds.unit] >>
        ELSE << >>

\* Variant: the loops exchanged, columns outside and bound prefixes inside.
Check5_by_column(df, pf) ==
    Flatten(MapSeq(df.cols,
        LAMBDA col :
            Flatten(MapSeq(SelectSeq(PHYSICAL_BOUNDS,
                                     LAMBDA bounds :
                                         startswith(col.name, bounds.prefix)),
                           LAMBDA bounds : BoundCheck(pf, col, bounds)))))

\* CHECK 5: physical bounds
Check5(df, pf) ==
    Flatten(MapSeq(PHYSICAL_BOUNDS,
        LAMBDA bounds :
            Flatten(MapSeq(matching_cols(df, bounds.prefix),
                           LAMBDA col : BoundCheck(pf, col, bounds)))))

---------------------------------------------------------------------------
(* Staging directories the model starts from                               *)

G_H_1 == G_H_ \o << "1" >>
G_H_2 == G_H_ \o << "2" >>

NextMonth(m) == (m % MONTHS_PER_YEAR) + 1

\* A file the checks find nothing wrong with.
WellFormed(pf) ==
    File(1, EXPECTED_COLUMNS,
         << Column(TIMESTAMP, << Ts(pf.year, pf.month) >>),
            Column(G_H_1, << Num(5000) >>) >>)

\* Wrong column count and no rows.
BadSchemaEmpty ==
    File(0, EXPECTED_COLUMNS + 1,
         << Column(TIMESTAMP, << >>), Column(G_H_1, << >>) >>)

NoisyColumns(pf) ==
    << Column(T_M_, << Num(701), Num(0), Str, NA >>),
       Column(TIMESTAMP, << Ts(pf.year, NextMonth(pf.month)),
                            Ts(pf.year, NextMonth(pf.month)),
                            Ts(pf.year, NextMonth(pf.month)), Str >>),
       Column(G_H_1, << Num(-1), Num(15001), Num(0), Num(1) >>) >>

\* Expected schema, but drifting and unparseable timestamps and values out
\* of bounds in two columns, stored in the reverse of the bound table's order.
WarnOnly(pf) == File(4, EXPECTED_COLUMNS, NoisyColumns(pf))

\* The same with a wrong column count.
BadSchemaNoisy(pf) == File(4, EXPECTED_COLUMNS - 1, NoisyColumns(pf))

FewContents(pf) ==
    { WellFormed(pf), Unreadable, BadSchemaEmpty, WarnOnly(pf),
      BadSchemaNoisy(pf) }

\* Structure family: row count, column count, with or without a timestamp column.
StructFamily(pf) ==
    { File(r, n, IF w THEN << Column(TIMESTAMP, Rep(Ts(pf.year, pf.month), r)) >>
                 ELSE << >>) :
        r \in 0..1,
        n \in {EXPECTED_COLUMNS - 1, EXPECTED_COLUMNS, EXPECTED_COLUMNS + 1},
        w \in BOOLEAN }

\* Timestamp family: the kinds of cell of a timestamp column of file pf: in the
\* partition, wrong month, wrong year, both wrong, unparseable, missing.
TsKinds(pf) ==
    << Ts(pf.year, pf.month), Ts(pf.year, NextMonth(pf.month)),
       Ts(pf.year + 1, pf.month), Ts(pf.year + 1, NextMonth(pf.month)),
       Str, NA >>

TsCounts ==
    { c \in [1..6 -> 0..MaxRows] :
        c[1] + c[2] + c[3] + c[4] + c[5] + c[6] \in 1..MaxRows }

TsFamily(pf) ==
    { LET col == Flatten([k \in 1..6 |-> Rep(TsKinds(pf)[k], c[k])])
      IN  File(Len(col), EXPECTED_COLUMNS, << Column(TIMESTAMP, col) >>) :
        c \in TsCounts }

\* Bound family: a column name and the bound (index in PHYSICAL_BOUNDS) whose
\* limits its cells are taken around.
Probes ==
    { [name |-> G_H_1, k |-> 1], [name |-> G_H_2, k |-> 1],
      [name |-> T_M_, k |-> 4], [name |-> U_DC_ \o << "_", "1" >>, k |-> 7],
      [name |-> << "X" >> \o G_H_, k |-> 1], [name |-> << "T", "_" >>, k |-> 3] }

EdgeVals(k) ==
    { Num(PHYSICAL_BOUNDS[k].min - 1), Num(PHYSICAL_BOUNDS[k].max),
      Num(PHYSICAL_BOUNDS[k].max + 1) }

ProbeVals(k) == EdgeVals(k) \cup { Num(PHYSICAL_BOUNDS[k].min), Str, NA }

BoundFamily ==
    UNION { UNION { { File(r, EXPECTED_COLUMNS, << Column(p.name, v) >>) :
                        v \in [1..r -> ProbeVals(p.k)] } :
                    r \in 1..MaxVals } :
            p \in Probes }
    \cup
    UNION { { File(1, EXPECTED_COLUMNS,
                   << Column(pq[1].name, << v >>), Column(pq[2].name, << w >>) >>) :
                v \in EdgeVals(pq[1].k), w \in EdgeVals(pq[2].k) } :
            pq \in { x \in Probes \X Probes : x[1] # x[2] } }

RichContents(pf) ==
    FewContents(pf) \cup StructFamily(pf) \cup TsFamily(pf) \cup BoundFamily

NoYear == [year |-> 0, month |-> 1]
NoMonth == [year |-> FIRST_YEAR, month |-> 0]

\* A batch: regular files 1..n, stray files, and the content of the files that
\* are not WellFormed.
Batch(n, stray, c1, c2) ==
    [n |-> n, stray |-> stray,
     special |-> (Regular(1) :> c1) @@ (Regular(2) :> c2)]

FullBatches ==
    { Batch(n, << >>, c1, c2) :
        n \in {EXPECTED_FILES - 1, EXPECTED_FILES, EXPECTED_FILES + 1},
        c1 \in FewContents(Regular(1)), c2 \in FewContents(Regular(2)) }

SmallBatches ==
    { Batch(SmallFiles, << >>, c1, WellFormed(Regular(2))) :
        c1 \in RichContents(Regular(1)) }

StrayBatches ==
    { Batch(SmallFiles, << s >>, c1, WellFormed(Regular(2))) :
        s \in {NoYear, NoMonth}, c1 \in FewContents(Regular(1)) }

Batches == FullBatches \cup SmallBatches \cup StrayBatches

\* No keyword argument besides input_dir, as the DAG calls the function.
NoKwargs == [k \in {} |-> 0]

\* Keyword arguments naming other values for the two constants and the table:
\* as many files as a small staging directory holds, one column less, and a
\* table of one bound, wider than the module's.
Override ==
    [EXPECTED_FILES |-> SmallFiles,
     EXPECTED_COLUMNS |-> EXPECTED_COLUMNS - 1,
     PHYSICAL_BOUNDS |->
         << [prefix |-> G_H_, min |-> -10, max |-> 20000, unit |-> "W/m2",
             desc |-> "Global Horizontal Irradiance"] >>]

\* def validate_parquet_quality(input_dir=..., **kwargs)
Kwargs == { NoKwargs, Override }

\* The calls the model starts from: the DAG's call on every directory, a call
\* with other keyword arguments on the small ones.
KwargsFor(b) == IF b.n = SmallFiles THEN Kwargs ELSE { NoKwargs }

\* base_path.rglob('*.parquet'): the directory's files, in an order the file
\* system chooses.
rglob(b) ==
    LET l == [i \in 1..b.n |-> Regular(i)] \o b.stray
    IN  { l, Reverse(l) }

\* pd.read_parquet(pf)
read_parquet(b, pf) ==
    IF pf \in DOMAIN b.special THEN b.special[pf] ELSE WellFormed(pf)

---------------------------------------------------------------------------
(* The solar_pipeline DAG                                                  *)

Tasks ==
    { "convert_csv_to_parquet", "verify_conversion", "validate_quality",
      "upload_to_s3", "verify_s3_upload" }

\* Variant: validation and upload as parallel branches after verify_conversion.
upstream_parallel(t) ==
    CASE t = "convert_csv_to_parquet" -> {}
      [] t = "verify_conversion" -> {"convert_csv_to_parquet"}
      [] t = "validate_quality" -> {"verify_conversion"}
      [] t = "upload_to_s3" -> {"verify_conversion"}
      [] t = "verify_s3_upload" -> {"upload_to_s3"}

\* task_convert >> task_verify >> task_validate >> task_upload >> task_verify_s3
upstream(t) ==
    CASE t = "convert_csv_to_parquet" -> {}
      [] t = "verify_conversion" -> {"convert_csv_to_parquet"}
      [] t = "validate_quality" -> {"verify_conversion"}
      [] t = "upload_to_s3" -> {"validate_quality"}
      [] t = "verify_s3_upload" -> {"upload_to_s3"}

Absent == [status |-> "absent"]

NoXCom ==
    [conversion_result |-> Absent, verification_result |-> Absent,
     upload_result |-> Absent, validate_return |-> Absent,
     verify_s3_return |-> Absent]

NoExc == [type |-> "none"]

NoResults ==
    [total_files |-> 0, total_rows |-> 0, critical_failures |-> << >>,
     warnings |-> << >>, files_validated |-> << >>]

Finished == {"success", "failed", "upstream_failed"}

\* The default trigger rule (all_success): a task instance is run once every
\* upstream task has succeeded, for the first time or after a failed attempt.
Runnable(t) ==
    /\ task_state[t] \in {"scheduled", "up_for_retry"}
    /\ \A u \in upstream(t) : task_state[u] = "success"

\* State of a task instance whose attempt raised: default_args gives every
\* task retries = 1, so the first failed attempt is retried.
AfterFailure(t, tries) == IF tries <= retries THEN "up_for_retry" ELSE "failed"

ValidatorIdle ==
    /\ pc' = "idle"
    /\ parquet_files' = << >>
    /\ idx' = 0
    /\ results' = NoResults
    /\ log' = << >>
    /\ exc' = NoExc

Init ==
    /\ batch \in Batches
    /\ kwargs \in KwargsFor(batch)
    /\ dag_run = 0
    /\ task_state = [t \in Tasks |-> "none"]
    /\ try_number = [t \in Tasks |-> 0]
    /\ xcom = NoXCom
    /\ pc = "idle"
    /\ parquet_files = << >>
    /\ idx = 0
    /\ results = NoResults
    /\ log = << >>
    /\ exc = NoExc
    /\ first_run = [verdict |-> "none"]

\* A manual trigger (schedule=None) of a DAG run, once no run is in progress.
TriggerDagRun ==
    /\ dag_run < MaxDagRuns
    /\ \A t \in Tasks : task_state[t] \in Finished \cup {"none"}
    /\ dag_run' = dag_run + 1
    /\ task_state' = [t \in Tasks |-> "scheduled"]
    /\ try_number' = [t \in Tasks |-> 0]
    /\ xcom' = NoXCom
    /\ ValidatorIdle
    /\ UNCHANGED << batch, kwargs, first_run >>

\* A task none of whose attempts can run any more because an upstream task failed.
UpstreamFailed ==
    \E t \in Tasks :
        /\ task_state[t] = "scheduled"
        /\ \E u \in upstream(t) : task_state[u] \in {"failed", "upstream_failed"}
        /\ task_state' = [task_state EXCEPT ![t] = "upstream_failed"]
        /\ UNCHANGED << batch, kwargs, dag_run, try_number, xcom, pc,
                        parquet_files, idx, results, log, exc, first_run >>

\* The end of an attempt of task t that involves no validator state.
Attempt(t, ok, key, value) ==
    /\ try_number' = [try_number EXCEPT ![t] = @ + 1]
    /\ task_state' = [task_state EXCEPT
                        ![t] = IF ok THEN "success"
                               ELSE AfterFailure(t, try_number[t] + 1)]
    /\ xcom' = IF ok THEN [xcom EXCEPT ![key] = value] ELSE xcom
    /\ UNCHANGED << batch, kwargs, dag_run, pc, parquet_files, idx, results,
                    log, exc, first_run >>

convert_csv_to_parquet ==
    /\ Runnable("convert_csv_to_parquet")
    /\ Attempt("convert_csv_to_parquet", TRUE, "conversion_result",
               [files_converted |-> FILES_CONVERTED,
                output_format |-> "parquet",
                columns_per_file |-> COLUMNS_PER_FILE,
                years_first |-> FIRST_YEAR, years_last |-> YEARS_END - 1,
                status |-> "success"])

verify_conversion ==
    /\ Runnable("verify_conversion")
    /\ LET conversion == xcom.conversion_result
           checks ==
               [file_count |-> conversion.files_converted = 131,
                column_count |-> conversion.columns_per_file = 108,
                format |-> conversion.output_format = "parquet",
                year_range |-> /\ conversion.years_first = 2013
                               /\ conversion.years_last = 2023]
           all_passed == /\ checks.file_count /\ checks.column_count
                         /\ checks.format /\ checks.year_range
       IN  Attempt("verify_conversion", all_passed, "verification_result", checks)

upload_to_s3 ==
    /\ Runnable("upload_to_s3")
    /\ LET verification == xcom.verification_result
           conversion == xcom.conversion_result
           ok == /\ verification.file_count /\ verification.column_count
                 /\ verification.format /\ verification.year_range
       IN  Attempt("upload_to_s3", ok, "upload_result",
                   [bucket |-> "solar-analytics-raw-scl-dev",
                    prefix |-> "raw/monthly/",
                    files_uploaded |-> conversion.files_converted,
                    region |-> "eu-central-1", status |-> "success"])

verify_s3_upload ==
    /\ Runnable("verify_s3_upload")
    /\ LET upload == xcom.upload_result
           checks ==
               [file_count |-> upload.files_uploaded = 131,
                bucket |-> upload.bucket = "solar-analytics-raw-scl-dev",
                region |-> upload.region = "eu-central-1"]
           all_passed == checks.file_count /\ checks.bucket /\ checks.region
       IN  Attempt("verify_s3_upload", all_passed, "verify_s3_return", checks)

---------------------------------------------------------------------------
(* validate_parquet_quality, run as the task validate_quality              *)

Info(m) == [level |-> "info", msg |-> m]
Error(m) == [level |-> "error", msg |-> m]
Warning(m) == [level |-> "warning", msg |-> m]

\* The end of the attempt of validate_quality in progress.
ValidateEnds(ok) ==
    task_state' = [task_state EXCEPT
                     !["validate_quality"] =
                        IF ok THEN "success"
                        ELSE AfterFailure("validate_quality",
                                          try_number["validate_quality"])]

\* The first completed validation of the batch is remembered; later ones are
\* compared with it.
Remember(verdict, res) ==
    first_run' =
        IF first_run.verdict = "none"
        THEN [verdict |-> verdict,
              critical_failures |-> res.critical_failures,
              warnings |-> res.warnings]
        ELSE first_run

\* Lines 54-74: the results dict, discovery, CHECK 1.
ValidateStart ==
    /\ Runnable("validate_quality")
    /\ \E listing \in rglob(batch) :
         LET files == sorted(listing)
             check1 == Check1(files)
         IN  /\ parquet_files' = files
             /\ results' = [NoResults EXCEPT !.total_files = Len(files),
                                             !.critical_failures = check1]
             /\ log' = IF check1 # << >>
                       THEN << Error([kind |-> "check1_failed",
                                      failure |-> check1[Len(check1)]]) >>
                       ELSE << Info([kind |-> "check1_passed",
                                     found |-> Len(files)]) >>
    /\ idx' = 1
    /\ pc' = "loop"
    /\ exc' = NoExc
    /\ task_state' = [task_state EXCEPT !["validate_quality"] = "running"]
    /\ try_number' = [try_number EXCEPT !["validate_quality"] = @ + 1]
    /\ UNCHANGED << batch, kwargs, dag_run, xcom, first_run >>

\* Variant: a file that cannot be taken is passed over (continue).
Abort_skip(type) ==
    /\ idx' = idx + 1
    /\ UNCHANGED << pc, exc, task_state, first_run, results >>

\* Variant: the exception is caught and recorded as a critical entry of the
\* file, and the loop goes on.
Abort_as_defect(type) ==
    /\ results' = [results EXCEPT
                      !.critical_failures =
                          Append(@, [kind |-> "load_failed",
                                     file |-> name(parquet_files[idx]),
                                     error |-> type])]
    /\ idx' = idx + 1
    /\ UNCHANGED << pc, exc, task_state, first_run >>

\* An exception that is not caught leaves the function and fails the attempt.
Abort(type) ==
    /\ pc' = "aborted"
    /\ exc' = [type |-> type]
    /\ ValidateEnds(FALSE)
    /\ Remember("aborted", results)
    /\ UNCHANGED << idx, results >>

\* Variant: total_rows is assigned the file's row count instead of added to.
Aggregate_assigns(res, df, file_info) ==
    [res EXCEPT !.total_rows = df.rows,
                !.files_validated = Append(@, file_info)]

\* Lines 160-161: the file is counted once its checks are done.
Aggregate(res, df, file_info) ==
    [res EXCEPT !.total_rows = @ + df.rows,
                !.files_validated = Append(@, file_info)]

\* Lines 77-161: one iteration of the loop over parquet_files.
ProcessFile ==
    /\ pc = "loop"
    /\ idx <= Len(parquet_files)
    /\ LET pf == parquet_files[idx]
           years == segments(pf, "year")
           months == segments(pf, "month")
       IN  IF years = << >> \/ months = << >>
           THEN Abort("IndexError")
           ELSE LET year == years[1].val
                    month == months[1].val
                    df == read_parquet(batch, pf)
                    file_info == [file |-> name(pf), year |-> year,
                                  month |-> month, rows |-> df.rows,
                                  columns |-> NCols(df)]
                IN  IF ~df.readable
                    THEN Abort("ArrowInvalid")
                    ELSE /\ results' =
                              Aggregate(
                                [results EXCEPT
                                   !.critical_failures =
                                       @ \o Check2(df, pf) \o Check3(df, pf),
                                   !.warnings =
                                       @ \o Check4(df, pf, year, month)
                                         \o Check5(df, pf)],
                                df, file_info)
                         /\ idx' = idx + 1
                         /\ UNCHANGED << pc, exc, task_state, first_run >>
    /\ UNCHANGED << batch, kwargs, dag_run, try_number, xcom, parquet_files,
                    log >>

\* Lines 164-170.
SummaryLines(res) ==
    << Info([kind |-> "rule"]),
       Info([kind |-> "title"]),
       Info([kind |-> "files_validated", n |-> res.total_files]),
       Info([kind |-> "total_rows", n |-> res.total_rows]),
       Info([kind |-> "critical_failures", n |-> Len(res.critical_failures)]),
       Info([kind |-> "warnings", n |-> Len(res.warnings)]),
       Info([kind |-> "rule"]) >>

\* Variant: the message counts the warnings as issues too.
ValidationFailed_all_issues(res) ==
    [type |-> "ValueError", kind |-> "validation_failed",
     count |-> Len(res.critical_failures) + Len(res.warnings)]

\* Lines 172-178: what the ValueError is built from.
ValidationFailed(res) ==
    [type |-> "ValueError", kind |-> "validation_failed",
     count |-> Len(res.critical_failures)]

\* Variant: warnings block the run too.
Fails_on_warnings(res) == res.critical_failures # << >> \/ res.warnings # << >>

\* Line 172: the run fails exactly on critical failures.
Fails(res) == res.critical_failures # << >>

\* Line 189: the value handed to the caller (pushed to XCom by the operator).
Returned(res) == res

\* Lines 163-189: the summary and the verdict.
Summarize ==
    /\ pc = "loop"
    /\ idx > Len(parquet_files)
    /\ IF Fails(results)
       THEN /\ log' = log \o SummaryLines(results)
                          \o MapSeq(results.critical_failures,
                                    LAMBDA failure :
                                        Error([kind |-> "critical",
                                               failure |-> failure]))
            /\ pc' = "raised"
            /\ exc' = ValidationFailed(results)
            /\ ValidateEnds(FALSE)
            /\ Remember("raised", results)
            /\ xcom' = xcom
       ELSE /\ log' = log \o SummaryLines(results)
                          \o (IF results.warnings # << >>
                              THEN << Warning([kind |-> "n_warnings",
                                               n |-> Len(results.warnings)]) >>
                                   \o MapSeq(results.warnings,
                                             LAMBDA w :
                                                 Warning([kind |-> "warning",
                                                          w |-> w]))
                              ELSE << Info([kind |-> "no_warnings"]) >>)
            /\ pc' = "returned"
            /\ exc' = NoExc
            /\ ValidateEnds(TRUE)
            /\ Remember("returned", results)
            /\ xcom' = [xcom EXCEPT !.validate_return = Returned(results)]
    /\ UNCHANGED << batch, kwargs, dag_run, try_number, parquet_files, idx,
                    results >>

Next ==
    \/ TriggerDagRun
    \/ convert_csv_to_parquet
    \/ verify_conversion
    \/ ValidateStart
    \/ ProcessFile
    \/ Summarize
    \/ upload_to_s3
    \/ verify_s3_upload
    \/ UpstreamFailed

Spec == Init /\ [][Next]_vars

---------------------------------------------------------------------------
(* Properties                                                              *)

\* The files of the staging directory.
Discovered == {Regular(k) : k \in 1..batch.n} \cup Range(batch.stray)

\* The function reached its end: it raised the critical-failure signal or
\* returned the report.
Ended == pc \in {"raised", "returned"}

\* The prefix of parquet_files whose iteration is complete.
Processed == 1..Len(results.files_validated)

\* Entries of kind k naming file pf in a sequence of entries.
EntriesOf(seq, k, pf) ==
    SelectSeq(seq, LAMBDA e : e.kind = k /\ e.file = name(pf))

\* C1: a batch whose number of discovered parquet files differs from
\* EXPECTED_FILES has, from CHECK 1 on, exactly one file-count entry in
\* critical_failures, the first one, giving 131 and the number found; the
\* run never returns the report; and when the loop is over every discovered
\* file has been inspected and the run ends in the failure signal.  A batch
\* of exactly EXPECTED_FILES files has no file-count entry.
C1_FileCountOnce ==
    pc # "idle" =>
        LET cf == results.critical_failures
            n == Cardinality(Discovered)
            fc == SelectSeq(cf, LAMBDA e : e.kind = "file_count")
        IN  IF n # EXPECTED_FILES
            THEN /\ fc = << [kind |-> "file_count", expected |-> 131, found |-> n] >>
                 /\ cf[1].kind = "file_count"
                 /\ pc # "returned"
                 /\ (pc = "loop" /\ idx > Len(parquet_files)) \/ Ended =>
                        {results.files_validated[i].file : i \in Processed}
                            = {name(pf) : pf \in Discovered}
                 /\ Ended => pc = "raised" /\ exc.kind = "validation_failed"
            ELSE fc = << >>

\* 130 files, nothing else wrong: one critical failure, all files inspected.
C1_Witness ==
    /\ pc = "raised"
    /\ Cardinality(Discovered) = 130
    /\ results.critical_failures
         = << [kind |-> "file_count", expected |-> 131, found |-> 130] >>
    /\ Len(results.files_validated) = 130

\* C2: at every point of a run, each file processed so far has exactly one
\* schema entry in critical_failures if its column count differs from
\* EXPECTED_COLUMNS and none if it equals it.
C2_SchemaEntry ==
    \A i \in Processed :
        LET pf == parquet_files[i]
            df == read_parquet(batch, pf)
            es == EntriesOf(results.critical_failures, "schema", pf)
        IN  IF df.pad + Len(df.cols) # 107
            THEN es = << [kind |-> "schema", file |-> name(pf),
                          expected |-> 107,
                          found |-> df.pad + Len(df.cols)] >>
            ELSE es = << >>

\* A run that met a file of 106 columns and one of 107.
C2_Witness ==
    /\ Ended
    /\ \E i \in Processed :
         /\ results.files_validated[i].columns = 106
         /\ EntriesOf(results.critical_failures, "schema", parquet_files[i])
              # << >>
    /\ \E i \in Processed : results.files_validated[i].columns = 107

\* C3: at every point of a run, each file processed so far has exactly one
\* emptiness entry in critical_failures if it has zero rows, whatever its
\* column count (with a wrong column count it has the schema entry as well),
\* and none if it has at least one row.
C3_EmptyEntry ==
    \A i \in Processed :
        LET pf == parquet_files[i]
            df == read_parquet(batch, pf)
            es == EntriesOf(results.critical_failures, "empty", pf)
        IN  IF df.rows = 0
            THEN /\ es = << [kind |-> "empty", file |-> name(pf)] >>
                 /\ df.pad + Len(df.cols) # 107 =>
                        Len(EntriesOf(results.critical_failures, "schema", pf)) = 1
            ELSE es = << >>

\* A zero-row file with a wrong column count gave both entries, and a
\* zero-row file with the expected column count was met too.
C3_Witness ==
    /\ \E i \in Processed :
         /\ results.files_validated[i].rows = 0
         /\ results.files_validated[i].columns = 108
         /\ Len(EntriesOf(results.critical_failures, "schema", parquet_files[i])) = 1
         /\ Len(EntriesOf(results.critical_failures, "empty", parquet_files[i])) = 1

\* C4: when the function reaches its end it raises if and only if
\* critical_failures is non-empty; with no critical failure it returns,
\* whatever the number of warnings, the attempt of validate_quality succeeds,
\* and the report handed to the caller holds every warning recorded.
C4_Verdict ==
    Ended =>
        /\ pc = "raised" <=> results.critical_failures # << >>
        /\ pc = "returned" =>
             /\ task_state["validate_quality"] = "success"
             /\ xcom.validate_return.warnings = results.warnings
             /\ xcom.validate_return.critical_failures = << >>
        /\ pc = "raised" =>
             /\ task_state["validate_quality"] \in {"up_for_retry", "failed"}
             /\ xcom.validate_return = Absent

\* A run that succeeded with warnings, which the report holds.
C4_Witness ==
    /\ pc = "returned"
    /\ Len(results.warnings) >= 4
    /\ xcom.validate_return.warnings = results.warnings

\* The defect entries a caller can read off an exception.
Attached(e) ==
    IF "critical_failures" \in DOMAIN e THEN Range(e.critical_failures) ELSE {}

\* The entries logged as CRITICAL, in the order they were logged.
LoggedCritical ==
    MapSeq(SelectSeq(log, LAMBDA l : l.level = "error" /\ l.msg.kind = "critical"),
           LAMBDA l : l.msg.failure)

\* C5, as claimed: the failure signal of a run that ends with critical
\* defects carries every entry of critical_failures.
C5_SignalCarriesDefects ==
    pc = "raised" =>
        \A i \in 1..Len(results.critical_failures) :
            results.critical_failures[i] \in Attached(exc)

\* C5, amended: the failure signal of a run that ends with critical defects
\* is a ValueError whose message gives the number of critical defects and
\* none of the entries; every entry of critical_failures has been logged at
\* error level, in order, before the signal is raised.
C5_SignalCarriesCount ==
    pc = "raised" =>
        /\ exc = [type |-> "ValueError", kind |-> "validation_failed",
                  count |-> Len(results.critical_failures)]
        /\ exc.count >= 1
        /\ Attached(exc) = {}
        /\ LoggedCritical = results.critical_failures

\* A failure with several critical defects and with warnings.
C5_Witness ==
    /\ pc = "raised"
    /\ exc.count = 3
    /\ Len(LoggedCritical) = 3
    /\ results.warnings # << >>

\* C6: in a DAG run, upload_to_s3 and verify_s3_upload have started no
\* attempt unless validate_quality has succeeded, which it does only on a
\* report without critical failures; while validation is running, waiting
\* for its retry or failed, neither has run and nothing has been uploaded.
C6_UploadGated ==
    /\ try_number["upload_to_s3"] > 0 \/ try_number["verify_s3_upload"] > 0 =>
         /\ task_state["validate_quality"] = "success"
         /\ xcom.validate_return # Absent
         /\ xcom.validate_return.critical_failures = << >>
    /\ \/ pc \in {"raised", "aborted"}
       \/ task_state["validate_quality"] \in {"running", "up_for_retry", "failed"}
       => /\ try_number["upload_to_s3"] = 0
          /\ try_number["verify_s3_upload"] = 0
          /\ task_state["upload_to_s3"] \in {"scheduled", "upstream_failed"}
          /\ task_state["verify_s3_upload"] \in {"scheduled", "upstream_failed"}
          /\ xcom.upload_result = Absent

\* Validation failed on critical defects in its retry too, and the two
\* downstream tasks were given up.
C6_Witness ==
    /\ pc = "raised"
    /\ try_number["validate_quality"] = 2
    /\ task_state["validate_quality"] = "failed"
    /\ task_state["upload_to_s3"] = "upstream_failed"
    /\ task_state["verify_s3_upload"] = "upstream_failed"

LexLess(a, b) ==
    \E i \in 1..Len(a) : a[i] < b[i] /\ \A j \in 1..(i - 1) : a[j] = b[j]

\* Place of an entry of critical_failures: the file-count entry first, then
\* by file, schema before emptiness.
CriticalKey(e) ==
    IF e.kind = "file_count" THEN << 0, 0, 0 >>
    ELSE << e.file[1], e.file[2], IF e.kind = "schema" THEN 1 ELSE 2 >>

\* Place of an entry of warnings: by file, drift, unparseable, then the bound
\* warnings by the bound's place in PHYSICAL_BOUNDS and the column's place in
\* the file.
WarningKey(e) ==
    IF e.kind = "drift" THEN << e.file[1], e.file[2], 1, 0, 0 >>
    ELSE IF e.kind = "unparseable" THEN << e.file[1], e.file[2], 2, 0, 0 >>
    ELSE LET df == read_parquet(batch, [year |-> e.file[1], month |-> e.file[2]])
         IN  << e.file[1], e.file[2], 3,
                CHOOSE k \in 1..Len(PHYSICAL_BOUNDS) :
                    PHYSICAL_BOUNDS[k].desc = e.desc,
                CHOOSE j \in 1..Len(df.cols) : df.cols[j].name = e.col >>

\* C7: at every point of a run the files are taken in ascending path order,
\* and critical_failures and warnings are in that order of files (the
\* file-count entry first) and, within a file, in the order of the checks:
\* schema before emptiness; drift, then unparseable timestamps, then the bound
\* warnings in the order of the bound table and, within a bound, of the
\* file's columns.
C7_Ordered ==
    /\ \A i \in 1..(Len(parquet_files) - 1) :
         LexLess(PathKey(parquet_files[i]), PathKey(parquet_files[i + 1]))
    /\ \A i \in Processed :
         results.files_validated[i].file = name(parquet_files[i])
    /\ \A i \in 1..(Len(results.critical_failures) - 1) :
         LexLess(CriticalKey(results.critical_failures[i]),
                 CriticalKey(results.critical_failures[i + 1]))
    /\ \A i \in 1..(Len(results.warnings) - 1) :
         LexLess(WarningKey(results.warnings[i]),
                 WarningKey(results.warnings[i + 1]))

Kinds(seq) == MapSeq(seq, LAMBDA e : e.kind)

\* File count, schema and emptiness of the first file, schema of the second,
\* whose four warnings come in check order.
C7_Witness ==
    /\ Ended
    /\ Kinds(results.critical_failures)
         = << "file_count", "schema", "empty", "schema" >>
    /\ Kinds(results.warnings) = << "drift", "unparseable", "bound", "bound" >>
    /\ results.warnings[3].col = G_H_1
    /\ results.warnings[4].col = T_M_

\* C8: every run of the function over the batch that reaches its end gives
\* the verdict and the critical_failures and warnings sequences of the first
\* run that completed, whatever order the file system lists the files in.
C8_Repeatable ==
    Ended =>
        first_run = [verdict |-> pc,
                     critical_failures |-> results.critical_failures,
                     warnings |-> results.warnings]

\* The retry in the second DAG run, the fourth run over the batch, ended
\* like the first, with entries from two files.
C8_Witness ==
    /\ dag_run = 2
    /\ try_number["validate_quality"] = 2
    /\ pc = "raised"
    /\ Len(results.critical_failures) >= 2
    /\ Len(results.warnings) >= 8

\* Cells of a timestamp column that parse to a timestamp off the partition.
WrongYear(col, pf) == CountIf(col, LAMBDA v : v.t = "ts" /\ v.a # pf.year)
WrongMonth(col, pf) == CountIf(col, LAMBDA v : v.t = "ts" /\ v.b # pf.month)

\* C9: each processed file with a timestamp column and at least one row has
\* one drift warning, giving both counts, if more than 2 of its parsed
\* timestamps have another year or more than 2 have another month than the
\* partition, and none otherwise (2 of another month give none, 3 give one);
\* a file without timestamp column or without rows has none.
C9_Drift ==
    \A i \in Processed :
        LET pf == parquet_files[i]
            df == read_parquet(batch, pf)
            es == EntriesOf(results.warnings, "drift", pf)
        IN  IF HasTimestamp(df) /\ df.rows > 0
            THEN LET wy == WrongYear(TimestampColumn(df), pf)
                     wm == WrongMonth(TimestampColumn(df), pf)
                 IN  /\ (wy > 2 \/ wm > 2) =>
                            es = << [kind |-> "drift", file |-> name(pf),
                                     wrong_year |-> wy, wrong_month |-> wm] >>
                     /\ ~(wy > 2 \/ wm > 2) => es = << >>
                     /\ (wm = 2 /\ wy <= 2) => es = << >>
                     /\ wm = 3 => Len(es) = 1
            ELSE es = << >>

\* Three timestamps of the next month, none of another year: one warning.
C9_Witness ==
    \E i \in Processed :
        /\ HasTimestamp(read_parquet(batch, parquet_files[i]))
        /\ WrongMonth(TimestampColumn(read_parquet(batch, parquet_files[i])),
                      parquet_files[i]) = 3
        /\ EntriesOf(results.warnings, "drift", parquet_files[i])
             = << [kind |-> "drift", file |-> name(parquet_files[i]),
                   wrong_year |-> 0, wrong_month |-> 3] >>

\* The entries of kind "bound" of a sequence of entries.
BoundEntries(seq) == SelectSeq(seq, LAMBDA e : e.kind = "bound")

\* Numeric cells of a column below, and above, the limits of a bound.
Below(col, bounds) == CountIf(col.vals, LAMBDA v : v.t = "num" /\ v.a < bounds.min)
Above(col, bounds) == CountIf(col.vals, LAMBDA v : v.t = "num" /\ v.a > bounds.max)

\* C10: for each processed file and each of its columns, the bound warnings
\* naming the column are: one, giving the count below min and the count above
\* max, if the column's name starts with a prefix of PHYSICAL_BOUNDS and a
\* numeric cell is strictly below min or strictly above max; none otherwise.
\* Cells equal to a limit and non-numeric cells count on neither side, and no
\* name starts with two prefixes of the table.
C10_BoundWarning ==
    /\ \A k, l \in 1..Len(PHYSICAL_BOUNDS) :
         k # l => ~startswith(PHYSICAL_BOUNDS[k].prefix, PHYSICAL_BOUNDS[l].prefix)
    /\ \A i \in Processed :
          LET pf == parquet_files[i]
              df == read_parquet(batch, pf)
              named == EntriesOf(BoundEntries(results.warnings), "bound", pf)
          IN  \A j \in 1..Len(df.cols) :
                  LET col == df.cols[j]
                      K == {k \in 1..Len(PHYSICAL_BOUNDS) :
                              startswith(col.name, PHYSICAL_BOUNDS[k].prefix)}
                      es == SelectSeq(named, LAMBDA e : e.col = col.name)
                      hit == {k \in K : \/ Below(col, PHYSICAL_BOUNDS[k]) > 0
                                        \/ Above(col, PHYSICAL_BOUNDS[k]) > 0}
                  IN  /\ Cardinality(K) <= 1
                      /\ Len(es) = Cardinality(hit)
                      /\ \A k \in hit :
                           es = << [kind |-> "bound", file |-> name(pf),
                                    col |-> col.name,
                                    desc |-> PHYSICAL_BOUNDS[k].desc,
                                    below |-> Below(col, PHYSICAL_BOUNDS[k]),
                                    min |-> PHYSICAL_BOUNDS[k].min,
                                    above |-> Above(col, PHYSICAL_BOUNDS[k]),
                                    max |-> PHYSICAL_BOUNDS[k].max,
                                    unit |-> PHYSICAL_BOUNDS[k].unit] >>

\* A column with one cell strictly below min and one equal to max: one
\* warning, below 1 and above 0.
C10_Witness ==
    \E i \in Processed :
        LET df == read_parquet(batch, parquet_files[i])
        IN  /\ Len(df.cols) = 1
            /\ df.cols[1].vals = << Num(-1), Num(15000) >>
            /\ Len(results.warnings) = 1
            /\ results.warnings[1].kind = "bound"
            /\ results.warnings[1].below = 1
            /\ results.warnings[1].above = 0

\* The values a run given the keyword arguments kw would apply, were they
\* taken from kw.
Configured(kw, key, default) == IF key \in DOMAIN kw THEN kw[key] ELSE default

\* C11, as claimed: a run given an override of EXPECTED_FILES,
\* EXPECTED_COLUMNS and the bound table applies the overridden values: the
\* file-count entry is there exactly when the number of files differs from
\* the overridden EXPECTED_FILES, a processed file has a schema entry exactly
\* when its column count differs from the overridden EXPECTED_COLUMNS, and
\* every bound warning gives the limits of a bound of the overridden table.
C11_OverrideApplied ==
    pc # "idle" =>
        LET files == Configured(kwargs, "EXPECTED_FILES", 131)
            columns == Configured(kwargs, "EXPECTED_COLUMNS", 107)
            table == Configured(kwargs, "PHYSICAL_BOUNDS", PHYSICAL_BOUNDS)
        IN  /\ (\E i \in 1..Len(results.critical_failures) :
                    results.critical_failures[i].kind = "file_count")
               <=> Len(parquet_files) # files
            /\ \A i \in Processed :
                 EntriesOf(results.critical_failures, "schema",
                           parquet_files[i]) # << >>
                 <=> results.files_validated[i].columns # columns
            /\ \A i \in 1..Len(BoundEntries(results.warnings)) :
                 \E k \in 1..Len(table) :
                     /\ table[k].min = BoundEntries(results.warnings)[i].min
                     /\ table[k].max = BoundEntries(results.warnings)[i].max

\* C11, amended: the entry point takes, besides the input directory, any
\* keyword arguments and ignores them: a run given values for EXPECTED_FILES,
\* EXPECTED_COLUMNS and the bound table still applies 131, 107 and the
\* 8-entry table of the module in the file-count, schema and bound checks.
C11_OverrideIgnored ==
    pc # "idle" =>
        /\ Len(PHYSICAL_BOUNDS) = 8
        /\ IF Len(parquet_files) # 131
           THEN SelectSeq(results.critical_failures,
                          LAMBDA e : e.kind = "file_count")
                  = << [kind |-> "file_count", expected |-> 131,
                        found |-> Len(parquet_files)] >>
           ELSE SelectSeq(results.critical_failures,
                          LAMBDA e : e.kind = "file_count") = << >>
        /\ \A i \in Processed :
             IF results.files_validated[i].columns # 107
             THEN EntriesOf(results.critical_failures, "schema",
                            parquet_files[i])
                    = << [kind |-> "schema",
                          file |-> name(parquet_files[i]), expected |-> 107,
                          found |-> results.files_validated[i].columns] >>
             ELSE EntriesOf(results.critical_failures, "schema",
                            parquet_files[i]) = << >>
        /\ \A i \in 1..Len(BoundEntries(results.warnings)) :
             \E k \in 1..Len(PHYSICAL_BOUNDS) :
                 /\ PHYSICAL_BOUNDS[k].desc = BoundEntries(results.warnings)[i].desc
                 /\ PHYSICAL_BOUNDS[k].min = BoundEntries(results.warnings)[i].min
                 /\ PHYSICAL_BOUNDS[k].max = BoundEntries(results.warnings)[i].max

\* A run told to expect 2 files, 106 columns and irradiance up to 2000 W/m2
\* met 2 files, one of 106 columns with an irradiance of 1500.1 W/m2, and
\* ended with the file-count entry, the schema entry and the bound warning of
\* the module's values.
C11_Witness ==
    /\ pc = "raised"
    /\ "EXPECTED_FILES" \in DOMAIN kwargs
    /\ kwargs.EXPECTED_FILES = Len(parquet_files)
    /\ results.critical_failures[1].kind = "file_count"
    /\ \E i \in Processed :
         /\ results.files_validated[i].columns = kwargs.EXPECTED_COLUMNS
         /\ EntriesOf(results.critical_failures, "schema", parquet_files[i])
              # << >>
    /\ \E i \in 1..Len(BoundEntries(results.warnings)) :
         /\ BoundEntries(results.warnings)[i].max = 15000
         /\ BoundEntries(results.warnings)[i].above > 0

\* The path has no year=<value> segment or no month=<value> segment.
NoPartition(pf) == segments(pf, "year") = << >> \/ segments(pf, "month") = << >>

\* The loop cannot take the file: its partition or its content cannot be read.
Fatal(pf) == NoPartition(pf) \/ ~read_parquet(batch, pf).readable

\* The first file, in discovery order, that the loop cannot take (0: none).
FirstFatal ==
    IF \E i \in 1..Len(parquet_files) : Fatal(parquet_files[i])
    THEN CHOOSE i \in 1..Len(parquet_files) :
             /\ Fatal(parquet_files[i])
             /\ \A j \in 1..(i - 1) : ~Fatal(parquet_files[j])
    ELSE 0

\* The entries of the report that name file pf.
Naming(pf) ==
    SelectSeq(results.critical_failures \o results.warnings,
              LAMBDA e : e.kind # "file_count" /\ e.file = name(pf))

\* The run is over: the function raised, returned, or was left by an exception.
Over == pc \in {"raised", "returned", "aborted"}

\* C12, as claimed: when a run over a directory of loadable files, one of
\* them on a path without year= or without month= segment, is over, it has
\* produced a report (returned or raised on its critical failures), the report
\* has an entry naming that file, and every other file has been processed.
C12_MissingSegmentRecorded ==
    /\ Over
    /\ \A pf \in Discovered : read_parquet(batch, pf).readable
    => \A pf \in Discovered :
           NoPartition(pf) =>
               /\ Ended
               /\ Naming(pf) # << >>
               /\ {results.files_validated[i].file : i \in Processed}
                    = {name(q) : q \in Discovered \ {pf}}

\* C12, amended: a discovered file whose path has no year= segment or no
\* month= segment is not silently skipped: when the loop reaches it the
\* IndexError of the partition extraction leaves the function and aborts the
\* run.  The loop never goes past the file, no entry is recorded for it, no
\* file after it is inspected, no report is returned, the attempt of
\* validate_quality fails and nothing is uploaded.
C12_MissingSegmentAborts ==
    pc # "idle" /\ FirstFatal # 0 /\ NoPartition(parquet_files[FirstFatal]) =>
        /\ idx <= FirstFatal
        /\ Len(results.files_validated) = idx - 1
        /\ Naming(parquet_files[FirstFatal]) = << >>
        /\ pc \in {"loop", "aborted"}
        /\ xcom.validate_return = Absent
        /\ try_number["upload_to_s3"] = 0
        /\ pc = "aborted" =>
             /\ idx = FirstFatal
             /\ exc = [type |-> "IndexError"]
             /\ task_state["validate_quality"] \in {"up_for_retry", "failed"}

\* Two files were processed, the third, under year=2013 without a month=
\* segment, aborted the run.
C12_Witness ==
    /\ pc = "aborted"
    /\ exc.type = "IndexError"
    /\ idx = 3
    /\ parquet_files[idx] = NoMonth
    /\ Len(results.files_validated) = 2
    /\ Naming(parquet_files[idx]) = << >>

\* C13: a file that cannot be loaded aborts the run when the loop reaches it:
\* the loop never goes past it, the report has no entry naming it, the files
\* after it are not inspected, no report is returned, and the exception that
\* leaves the function is the loader's, not the ValueError raised for
\* critical failures, whatever critical failures were recorded before.
C13_LoadFailureAborts ==
    pc # "idle" /\ FirstFatal # 0 /\ ~NoPartition(parquet_files[FirstFatal]) =>
        /\ idx <= FirstFatal
        /\ Len(results.files_validated) = idx - 1
        /\ Naming(parquet_files[FirstFatal]) = << >>
        /\ \A j \in (FirstFatal + 1)..Len(parquet_files) :
             Naming(parquet_files[j]) = << >>
        /\ pc \in {"loop", "aborted"}
        /\ xcom.validate_return = Absent
        /\ pc = "aborted" =>
             /\ idx = FirstFatal
             /\ exc = [type |-> "ArrowInvalid"]
             /\ exc # ValidationFailed(results)
             /\ exc.type # ValidationFailed(results).type
             /\ task_state["validate_quality"] \in {"up_for_retry", "failed"}

\* The second file could not be loaded, after the file count and the first
\* file had given critical failures; the third file was not inspected.
C13_Witness ==
    /\ pc = "aborted"
    /\ exc.type = "ArrowInvalid"
    /\ idx = 2
    /\ Len(parquet_files) > 2
    /\ Len(results.critical_failures) >= 2
    /\ Len(results.files_validated) = 1

\* The warnings logged one by one, in the order they were logged.
LoggedWarnings ==
    MapSeq(SelectSeq(log, LAMBDA l : l.level = "warning" /\ l.msg.kind = "warning"),
           LAMBDA l : l.msg.w)

\* Positions in the log of the lines of the summary and of the enumerated
\* defects.
SummaryAt == {i \in 1..Len(log) : log[i] \in Range(SummaryLines(results))}
DefectAt == {i \in 1..Len(log) : log[i].msg.kind \in {"critical", "warning"}}

\* C14: when a run has processed every discovered file and reached its end,
\* with either verdict, every warning of the report has been logged, in
\* order, and the enumerated defects come after the lines of the summary; so
\* the warnings of a run that raised on critical failures are logged too.
C14_WarningsLogged ==
    Ended =>
        /\ LoggedWarnings = results.warnings
        /\ SummaryAt # {}
        /\ \A i \in SummaryAt : \A j \in DefectAt : i < j

\* C15: a processed file has no schema entry exactly when it has 108 columns,
\* the number the module documentation gives and the DAG's verify_conversion
\* checks columns_per_file against; so a file with the number of columns the
\* verified conversion reported passes the schema check.
C15_SchemaPassesAt108 ==
    \A i \in Processed :
        /\ EntriesOf(results.critical_failures, "schema", parquet_files[i])
             = << >>
           <=> results.files_validated[i].columns = 108
        /\ /\ task_state["verify_conversion"] = "success"
           /\ xcom.verification_result.column_count
           /\ results.files_validated[i].columns
                = xcom.conversion_result.columns_per_file
           => EntriesOf(results.critical_failures, "schema", parquet_files[i])
                = << >>

\* Cells of a timestamp column that hold a value which is not a timestamp.
PresentUnparsed(col) == CountIf(col, LAMBDA v : ~isna(v) /\ isna(to_datetime(v)))

\* Cells of a timestamp column that parse.
Parsed(col) == CountIf(col, LAMBDA v : ~isna(to_datetime(v)))

\* C16: each processed file with a timestamp column and at least one row has
\* one unparseable-timestamps warning, giving the number of its timestamp
\* cells that hold a value which does not parse (missing cells not counted),
\* if that number is greater than 0, whether or not any cell parses, and none
\* if it is 0; a file without rows or without timestamp column has neither
\* this warning nor a drift warning.
C16_Unparseable ==
    \A i \in Processed :
        LET pf == parquet_files[i]
            df == read_parquet(batch, pf)
            es == EntriesOf(results.warnings, "unparseable", pf)
        IN  IF HasTimestamp(df) /\ df.rows > 0
            THEN LET n == PresentUnparsed(TimestampColumn(df))
                 IN  IF n > 0
                     THEN es = << [kind |-> "unparseable", file |-> name(pf),
                                   count |-> n] >>
                     ELSE es = << >>
            ELSE /\ es = << >>
                 /\ EntriesOf(results.warnings, "drift", pf) = << >>

\* A timestamp column of two values that do not parse and a missing one, none
\* that parses: one warning, count 2.
C16_Witness ==
    \E i \in Processed :
        LET df == read_parquet(batch, parquet_files[i])
        IN  /\ HasTimestamp(df)
            /\ TimestampColumn(df) = << Str, Str, NA >>
            /\ Parsed(TimestampColumn(df)) = 0
            /\ results.warnings
                 = << [kind |-> "unparseable", file |-> name(parquet_files[i]),
                       count |-> 2] >>

\* sum(e['rows'] for e in files_validated)
RowsOf(fv) ==
    BagCardinality([i \in {j \in 1..Len(fv) : fv[j].rows > 0} |-> fv[i].rows])

\* C17: at every point of a run files_validated holds, in discovery order,
\* one entry for each file whose iteration is complete and none for any other
\* (the entry gives the file's name, partition, rows and columns), total_rows
\* is the sum of the rows of those entries, and files_validated is no longer
\* than total_files; when the function returns the report or raises on
\* critical failures, len(files_validated) = total_files = the number of
\* discovered files.
C17_FilesValidated ==
    /\ pc # "idle" => Len(results.files_validated) = idx - 1
    /\ \A i \in Processed :
         LET pf == parquet_files[i]
             df == read_parquet(batch, pf)
         IN  results.files_validated[i]
               = [file |-> name(pf), year |-> pf.year, month |-> pf.month,
                  rows |-> df.rows, columns |-> df.pad + Len(df.cols)]
    /\ results.total_rows = RowsOf(results.files_validated)
    /\ Len(results.files_validated) <= results.total_files
    /\ pc # "idle" => results.total_files = Cardinality(Discovered)
    /\ Ended => Len(results.files_validated) = results.total_files

\* 131 files, one of four rows and one of none: 133 rows in all.
C17_Witness ==
    /\ Ended
    /\ Len(results.files_validated) = 131
    /\ results.total_files = 131
    /\ results.files_validated[1].rows = 4
    /\ results.files_validated[2].rows = 0
    /\ results.total_rows = 133

=============================================================================
